---------------------------- MODULE Spec2Model ----------------------------
(***************************************************************************)
(* A model of novelendless.py: the n-gram Markov model builder             *)
(* (build_model) and the sentence generator (generate_sentence).           *)
(*                                                                         *)
(* Tokens are surface strings.  The module language has ASCII strings      *)
(* only, so every Japanese surface form is written in romaji:              *)
(*    "."  = 。    "!" = ！    "?" = ？                                    *)
(*    "ha" = は   "ga" = が   "wo" = を   ...                              *)
(*    "watashi" = 私   "neko" = 猫   "da" = だ   "kawaii" = 可愛い         *)
(* Part-of-speech tags:  "joshi" = 助詞 (particle), "meishi" = 名詞.       *)
(***************************************************************************)
EXTENDS Integers, Sequences, FiniteSets, TLC

(***************************************************************************)
(* Bounds of the model.                                                    *)
(***************************************************************************)
MaxTokens == 4      \* longest tokenized corpus the generator is run on
MaxCorpus == 5      \* longest tokenized corpus build_model alone is run on
MaxN      == 3      \* largest n-gram order n
MaxSeed   == 0      \* seeds are 0..MaxSeed
MaxMaxLen == 3      \* max_len is 0..MaxMaxLen
MaxIter   == 2      \* endless_stream runs iterations 0..MaxIter-1
MaxCount  == 2      \* a typed count is at most MaxCount
Period    == 2      \* period of a seeded pseudo-random stream

(***************************************************************************)
(* Configuration (lines 10-11).                                            *)
(***************************************************************************)
END_TOKENS == {".", "!", "?", "\n"}
START_EXCLUDE == {"ga", "ni", "de", "kara", "wo", "ha", "te", "to", "mo",
                  "he", "ya", "no", "yori", "shika", "dake", "dari"}

\* seed=None, the default of generate_sentence
NoSeed == -1

\* The surface forms the tokenizer produces in the bounded corpora.
Tokens == {"neko", "ha", "."}

\* The first part-of-speech field the tagger can report for a word.
PosTags == {"joshi", "meishi"}

VARIABLES
    pc,          \* where the program is
    tokens,      \* tokenize(text): the tokenized corpus
    N,           \* the n the model is built with
    tagger,      \* the analyzer's dictionary: word -> analysis units (pos[0])
    model,       \* defaultdict(Counter), entries in insertion order
    rng,         \* state of the shared random module
    n,           \* generate_sentence: parameter n
    max_len,     \* generate_sentence: parameter max_len
    seed,        \* generate_sentence: parameter seed
    candidates,  \* generate_sentence: local candidates
    state,       \* generate_sentence: local state
    out,         \* generate_sentence: local out
    result,      \* the value generate_sentence returned
    err,         \* the exception that ended the program, "" if none
    saved,       \* a returned sentence the caller has kept, with its arguments
    mpc,         \* __main__ / endless_stream: where the caller is
    base,        \* endless_stream: parameter seed
    stream_i,    \* endless_stream: local i
    ask_for,     \* __main__: local ask_for
    count,       \* __main__: local count
    cont,        \* __main__: local cont
    printed,     \* sentences printed since the last count prompt or the
                 \* start of the stream
    shown        \* the last sentence printed

\* The state of the caller of build_model and generate_sentence.
callerVars == <<mpc, base, stream_i, ask_for, count, cont, printed, shown>>

vars == <<pc, tokens, N, tagger, model, rng, n, max_len, seed,
          candidates, state, out, result, err, saved, callerVars>>

(***************************************************************************)
(* Python sequence primitives.                                             *)
(***************************************************************************)
Min(a, b) == IF a < b THEN a ELSE b
Max(a, b) == IF a > b THEN a ELSE b

\* A slice bound as Python normalises it: negative counts from the end,
\* then clamped to 0..len.
PyBound(len, k) == IF k < 0 THEN Max(0, len + k) ELSE Min(len, k)

\* seq[lo:hi] with 0-based, possibly negative, bounds.
PySlice(seq, lo, hi) ==
    LET l == PyBound(Len(seq), lo)
        h == PyBound(Len(seq), hi)
    IN  IF l < h THEN SubSeq(seq, l + 1, h) ELSE <<>>

\* seq[lo:]
PySliceFrom(seq, lo) ==
    LET l == PyBound(Len(seq), lo)
    IN  SubSeq(seq, l + 1, Len(seq))

\* seq[k] with a 0-based, possibly negative, index that is in range.
PyIndex(seq, k) == IF k < 0 THEN seq[Len(seq) + k + 1] ELSE seq[k + 1]

\* "".join(out)
RECURSIVE Join(_)
Join(s) == IF s = <<>> THEN "" ELSE Head(s) \o Join(Tail(s))

\* All sequences over S of length at most k.
SeqsUpTo(S, k) == UNION {[1..m -> S] : m \in 0..k}


(***************************************************************************)
(* The model: a dict from state tuples to Counters.  Both keep insertion   *)
(* order, so each is a sequence of entries.                                *)
(***************************************************************************)
\* Position of key s in dict m, 0 if absent.
KeyIndex(m, s) ==
    IF \E k \in 1..Len(m) : m[k].state = s
    THEN CHOOSE k \in 1..Len(m) : m[k].state = s
    ELSE 0

\* list(model.keys())
Keys(m) == [k \in 1..Len(m) |-> m[k].state]

\* model.get(state): the Counter of state, <<>> (falsy) if absent.
\* get never inserts.
ModelGet(m, s) == IF KeyIndex(m, s) = 0 THEN <<>> ELSE m[KeyIndex(m, s)].counter

\* counter[t]: the count of t, 0 if absent.
Count(counter, t) ==
    IF \E j \in 1..Len(counter) : counter[j].tok = t
    THEN counter[CHOOSE j \in 1..Len(counter) : counter[j].tok = t].cnt
    ELSE 0

\* counter[t] += 1
Incr(counter, t) ==
    IF \E j \in 1..Len(counter) : counter[j].tok = t
    THEN LET j == CHOOSE j \in 1..Len(counter) : counter[j].tok = t
         IN  [counter EXCEPT ![j].cnt = @ + 1]
    ELSE Append(counter, [tok |-> t, cnt |-> 1])

\* A new key gets its Counter but its first successor is not counted.
RecordKeyOnly(m, s, t) ==
    IF KeyIndex(m, s) = 0
    THEN Append(m, [state |-> s, counter |-> <<>>])
    ELSE [m EXCEPT ![KeyIndex(m, s)].counter = Incr(@, t)]

\* model[s][t] += 1: the defaultdict creates the Counter of a new key.
Record(m, s, t) ==
    IF KeyIndex(m, s) = 0
    THEN Append(m, [state |-> s, counter |-> Incr(<<>>, t)])
    ELSE [m EXCEPT ![KeyIndex(m, s)].counter = Incr(@, t)]

(***************************************************************************)
(* build_model (lines 44-54), on the tokenized text.                       *)
(***************************************************************************)
\* range(len(tokens) - n): the number of windows the loop visits.
WindowCount(toks, k) == Len(toks) - k

\* A state slice one token too long.
StateAtLong(toks, k, i) == PySlice(toks, i, i + k)

\* state = tuple(tokens[i:i + n - 1])
StateAt(toks, k, i) == PySlice(toks, i, i + k - 1)

\* A successor taken one token too far.
NextAtShifted(toks, k, i) == PyIndex(toks, i + k)

\* nxt = tokens[i + n - 1]
NextAt(toks, k, i) == PyIndex(toks, i + k - 1)

\* The loop body run for i, i+1, ..., on the model m built so far.
RECURSIVE BuildLoop(_, _, _, _)
BuildLoop(toks, k, i, m) ==
    IF i >= WindowCount(toks, k)
    THEN m
    ELSE BuildLoop(toks, k, i + 1,
                   Record(m, StateAt(toks, k, i), NextAt(toks, k, i)))

build_model(toks, k) ==
    IF Len(toks) < k THEN <<>> ELSE BuildLoop(toks, k, 0, <<>>)

(***************************************************************************)
(* The particle classifier (lines 16-26).  tagger[word] is the sequence    *)
(* of pos[0] fields of the units the analyzer splits word into.            *)
(***************************************************************************)
\* A classifier that calls no word a particle.
IsParticleNever(word) == FALSE

is_particle(word) ==
    \E k \in 1..Len(tagger[word]) : tagger[word][k] = "joshi"

(***************************************************************************)
(* The shared random module.  Until the first random.seed the generator    *)
(* holds the operating system's entropy and nothing is known of its        *)
(* draws.  random.seed(s) starts the stream of s, a fixed periodic         *)
(* sequence of raw values.                                                 *)
(***************************************************************************)
OsRng == [src |-> "os", seed |-> 0, pos |-> 0]

\* random.seed(s)
Seeded(s) == [src |-> "seed", seed |-> s, pos |-> 0]

\* The raw value at position p of the stream of seed s.
Raw(s, p) == (s + 1) * 3 + p * 5 + s * p

\* A draw that always yields 0.
RandBelowZero(r, k) == {[val |-> 0, rng |-> r]}

\* One draw of an integer in 0..k-1: the possible (value, next state) pairs.
RandBelow(r, k) ==
    IF r.src = "os"
    THEN {[val |-> v, rng |-> r] : v \in 0..(k - 1)}
    ELSE {[val |-> Raw(r.seed, r.pos) % k,
           rng |-> [r EXCEPT !.pos = (@ + 1) % Period]]}

\* sum(weights) of the first j entries of a Counter
RECURSIVE CumWeight(_, _)
CumWeight(counter, j) ==
    IF j = 0 THEN 0 ELSE CumWeight(counter, j - 1) + counter[j].cnt

\* random.choices(tokens, weights, k=1)[0] for the draw v in 0..total-1:
\* the entry whose cumulative-weight interval holds v.
WeightedPick(counter, v) ==
    counter[CHOOSE j \in 1..Len(counter) :
                CumWeight(counter, j - 1) <= v /\ v < CumWeight(counter, j)].tok

\* sum(counter.values())
Total(counter) == CumWeight(counter, Len(counter))

\* choose_next (lines 56-58) with the random module in state r: the
\* possible (token, next state) pairs.
choose_next(counter, r) ==
    {[tok |-> WeightedPick(counter, d.val), rng |-> d.rng] :
        d \in RandBelow(r, Total(counter))}

(***************************************************************************)
(* Initial state: the program is started on some corpus, with some n, and  *)
(* some analyzer dictionary.                                               *)
(***************************************************************************)
Corpora == SeqsUpTo(Tokens, MaxTokens)

\* build_model and generate_sentence are used as a library: no __main__.
NoCaller ==
    /\ mpc = "api"
    /\ base = NoSeed
    /\ stream_i = 0
    /\ ask_for = ""
    /\ count = 0
    /\ cont = ""
    /\ printed = 0
    /\ shown = ""

\* No sentence kept.
NoSaved == [seed |-> NoSeed, n |-> 0, max_len |-> 0, result |-> ""]

Taggers == [Tokens -> {<<p>> : p \in PosTags}]

Init ==
    /\ pc = "main"
    /\ tokens \in Corpora
    /\ N \in 1..MaxN
    /\ tagger \in Taggers
    /\ model = <<>>
    /\ rng = OsRng
    /\ n = 0
    /\ max_len = 0
    /\ seed = NoSeed
    /\ candidates = <<>>
    /\ state = <<>>
    /\ out = <<>>
    /\ result = ""
    /\ err = ""
    /\ saved = NoSaved
    /\ NoCaller

(***************************************************************************)
(* __main__ line 109: model = build_model(corpus, n=N)                     *)
(***************************************************************************)
BuildModel ==
    /\ pc = "main"
    /\ model' = build_model(tokens, N)
    /\ pc' = "built"
    /\ UNCHANGED <<tokens, N, tagger, rng, n, max_len, seed,
                   candidates, state, out, result, err, saved,
                   callerVars>>

(***************************************************************************)
(* The caller goes on after build_model or generate_sentence has returned  *)
(* (lines 110, 130-131, 94-99): the callee's frame and the returned        *)
(* sentence are gone, the model and the random module stay.                *)
(***************************************************************************)
GoOn ==
    /\ pc \in {"built", "returned"}
    /\ pc' = "idle"
    /\ tokens' = <<>>
    /\ n' = 0
    /\ max_len' = 0
    /\ seed' = NoSeed
    /\ candidates' = <<>>
    /\ state' = <<>>
    /\ out' = <<>>
    /\ result' = ""
    /\ UNCHANGED <<N, tagger, model, rng, err>>

Continue ==
    /\ GoOn
    /\ UNCHANGED <<saved, callerVars>>

\* A caller that compares sentences keeps the first one it got for a seed,
\* with the arguments of the call, and goes on.
Keep ==
    /\ pc = "returned"
    /\ seed # NoSeed
    /\ saved = NoSaved
    /\ NoCaller
    /\ saved' = [seed |-> seed, n |-> n, max_len |-> max_len,
                 result |-> result]
    /\ GoOn
    /\ UNCHANGED callerVars

(***************************************************************************)
(* generate_sentence (lines 60-88).                                        *)
(***************************************************************************)
\* A generator that is never reseeded.
ReseedNever(r, s) == r

\* lines 61-62: if seed is not None: random.seed(seed)
Reseed(r, s) == IF s # NoSeed THEN Seeded(s) ELSE r

\* line 66: [s for s in model.keys() if s[0] not in END_TOKENS]
NonEndKeys(m) == SelectSeq(Keys(m), LAMBDA s : s[1] \notin END_TOKENS)

\* Candidates without the terminator filter.
CandidatesAll(m) == Keys(m)

\* lines 66-68
Candidates(m) == IF NonEndKeys(m) = <<>> THEN Keys(m) ELSE NonEndKeys(m)

\* A check that never takes the empty-model exit.
NotModelNever(m) == FALSE

\* line 63: not model
NotModel(m) == m = <<>>

\* s[0] raises IndexError on an empty tuple
HasEmptyKey(m) == \E k \in 1..Len(m) : m[k].state = <<>>

CallArgs(pn, pmax, pseed) ==
    /\ pc = "idle"
    /\ n' = pn
    /\ max_len' = pmax
    /\ seed' = pseed
    /\ rng' = Reseed(rng, pseed)
    /\ UNCHANGED <<tokens, N, tagger, model, saved,
                   callerVars>>

\* lines 63-64: if not model: return ""
GenEmpty(pn, pmax, pseed) ==
    /\ CallArgs(pn, pmax, pseed)
    /\ NotModel(model)
    /\ result' = ""
    /\ pc' = "returned"
    /\ candidates' = <<>>
    /\ state' = <<>>
    /\ out' = <<>>
    /\ UNCHANGED err

\* line 66 on a model with an empty key: IndexError, uncaught
GenRaise(pn, pmax, pseed) ==
    /\ CallArgs(pn, pmax, pseed)
    /\ ~NotModel(model)
    /\ HasEmptyKey(model)
    /\ err' = "IndexError"
    /\ pc' = "raised"
    /\ candidates' = <<>>
    /\ state' = <<>>
    /\ out' = <<>>
    /\ result' = ""

\* lines 66-68: the candidates are computed, the selection loop is entered
GenStart(pn, pmax, pseed) ==
    /\ CallArgs(pn, pmax, pseed)
    /\ ~NotModel(model)
    /\ ~HasEmptyKey(model)
    /\ candidates' = Candidates(model)
    /\ pc' = "select"
    /\ state' = <<>>
    /\ out' = <<>>
    /\ result' = ""
    /\ UNCHANGED err

\* lines 71-74, a particle drawn: draw again
SelectReject ==
    /\ pc = "select"
    /\ \E d \in RandBelow(rng, Len(candidates)) :
          /\ state' = candidates[d.val + 1]
          /\ rng' = d.rng
    /\ is_particle(state'[1])
    /\ UNCHANGED <<pc, tokens, N, tagger, model, n, max_len, seed,
                   candidates, out, result, err, saved,
                   callerVars>>

\* lines 71-76, a non-particle drawn: out = list(state)
SelectAccept ==
    /\ pc = "select"
    /\ \E d \in RandBelow(rng, Len(candidates)) :
          /\ state' = candidates[d.val + 1]
          /\ rng' = d.rng
    /\ ~is_particle(state'[1])
    /\ out' = state'
    /\ pc' = "extend"
    /\ UNCHANGED <<tokens, N, tagger, model, n, max_len, seed,
                   candidates, result, err, saved,
                   callerVars>>

\* line 88: return "".join(out); the other locals end with the call
Return(o) ==
    /\ result' = Join(o)
    /\ pc' = "returned"
    /\ candidates' = <<>>
    /\ state' = <<>>

\* A lookup by model[state]: the defaultdict inserts an empty Counter for
\* an absent key.
AfterGetInsert(m, s) ==
    IF KeyIndex(m, s) = 0
    THEN Append(m, [state |-> s, counter |-> <<>>])
    ELSE m

\* line 79: the model after model.get(state); get inserts nothing.
AfterGet(m, s) == m

\* A terminator test that never holds.
IsEndNever(t) == FALSE

\* line 84: nxt in END_TOKENS
IsEnd(t) == t \in END_TOKENS

\* A loop that goes on while len(out) <= max_len.
LoopCondLate(o, m) == Len(o) <= m

\* line 78: len(out) < max_len
LoopCond(o, m) == Len(o) < m

\* line 78: the loop condition len(out) < max_len is false
ExtendFull ==
    /\ pc = "extend"
    /\ ~LoopCond(out, max_len)
    /\ Return(out)
    /\ UNCHANGED <<tokens, N, tagger, model, rng, n, max_len, seed, out, err,
                   saved, callerVars>>

\* lines 79-81: the state has no entry, a dead end
ExtendDeadEnd ==
    /\ pc = "extend"
    /\ LoopCond(out, max_len)
    /\ ModelGet(model, state) = <<>>
    /\ model' = AfterGet(model, state)
    /\ Return(out)
    /\ UNCHANGED <<tokens, N, tagger, rng, n, max_len, seed, out, err, saved,
                   callerVars>>

\* The state taken one token too long: out[-n:].
LastStateLong(o, k) == PySliceFrom(o, -k)

\* The state taken from the front: out[:n - 1].
LastStateFirst(o, k) == PySlice(o, 0, k - 1)

\* line 86: tuple(out[-(n - 1):])
LastState(o, k) == PySliceFrom(o, -(k - 1))

\* lines 82-85: a terminator token is sampled and appended
ExtendEnd ==
    /\ pc = "extend"
    /\ LoopCond(out, max_len)
    /\ ModelGet(model, state) # <<>>
    /\ \E c \in choose_next(ModelGet(model, state), rng) :
          /\ out' = Append(out, c.tok)
          /\ rng' = c.rng
    /\ IsEnd(out'[Len(out')])
    /\ model' = AfterGet(model, state)
    /\ Return(out')
    /\ UNCHANGED <<tokens, N, tagger, n, max_len, seed, err, saved,
                   callerVars>>

\* lines 82-86: another token is sampled and appended, the state moves on
ExtendAppend ==
    /\ pc = "extend"
    /\ LoopCond(out, max_len)
    /\ ModelGet(model, state) # <<>>
    /\ \E c \in choose_next(ModelGet(model, state), rng) :
          /\ out' = Append(out, c.tok)
          /\ rng' = c.rng
    /\ ~IsEnd(out'[Len(out')])
    /\ model' = AfterGet(model, state)
    /\ state' = LastState(out', n)
    /\ UNCHANGED <<pc, tokens, N, tagger, n, max_len, seed,
                   candidates, result, err, saved,
                   callerVars>>

(***************************************************************************)
(* The callers' arguments.                                                 *)
(***************************************************************************)
Seeds == 0..MaxSeed
SeedArgs == Seeds \cup {NoSeed}
MaxLenArgs == 0..MaxMaxLen
NArgs == 1..MaxN

Generate ==
    \E pn \in NArgs, pmax \in MaxLenArgs, pseed \in SeedArgs :
        \/ GenEmpty(pn, pmax, pseed)
        \/ GenRaise(pn, pmax, pseed)
        \/ GenStart(pn, pmax, pseed)

Next ==
    \/ BuildModel
    \/ Continue
    \/ Generate
    \/ SelectReject
    \/ SelectAccept
    \/ ExtendFull
    \/ ExtendDeadEnd
    \/ ExtendEnd
    \/ ExtendAppend

Spec == Init /\ [][Next]_vars

(***************************************************************************)
(* build_model alone, on longer corpora and with n from 0.                 *)
(***************************************************************************)
InitBuild ==
    /\ pc = "main"
    /\ tokens \in SeqsUpTo(Tokens, MaxCorpus)
    /\ N \in 0..MaxN
    /\ tagger \in Taggers
    /\ model = <<>>
    /\ rng = OsRng
    /\ n = 0
    /\ max_len = 0
    /\ seed = NoSeed
    /\ candidates = <<>>
    /\ state = <<>>
    /\ out = <<>>
    /\ result = ""
    /\ err = ""
    /\ saved = NoSaved
    /\ NoCaller

BuildSpec == InitBuild /\ [][BuildModel]_vars

(***************************************************************************)
(* The generator with a caller that keeps a seeded sentence and compares   *)
(* the later ones with it.                                                 *)
(***************************************************************************)
\* The calls of that caller: n=N as everywhere in the program (lines 93,
\* 129, 134), any seed, and once a sentence is kept the max_len it was
\* generated with.
GenerateAgain ==
    \E pmax \in MaxLenArgs, pseed \in SeedArgs :
        /\ saved # NoSaved => pmax = saved.max_len
        /\ \/ GenEmpty(N, pmax, pseed)
           \/ GenRaise(N, pmax, pseed)
           \/ GenStart(N, pmax, pseed)

NextSeed ==
    \/ BuildModel
    \/ Continue
    \/ Keep
    \/ GenerateAgain
    \/ SelectReject
    \/ SelectAccept
    \/ ExtendFull
    \/ ExtendDeadEnd
    \/ ExtendEnd
    \/ ExtendAppend

SeedSpec == Init /\ [][NextSeed]_vars

(***************************************************************************)
(* The program run on the corpus 私は猫だ。猫は可愛い。 with n = 3.          *)
(***************************************************************************)
CatCorpus ==
    <<"watashi", "ha", "neko", "da", ".", "neko", "ha", "kawaii", ".">>

CatTokens == {CatCorpus[k] : k \in 1..Len(CatCorpus)}

\* The dictionaries: any verdict on the words that open a trigram of the
\* corpus.
CatTaggers ==
    {t \in [CatTokens -> {<<p>> : p \in PosTags}] :
        t["."] = <<"meishi">> /\ t["kawaii"] = <<"meishi">>}

CatMaxLen == 6

InitCat ==
    /\ pc = "main"
    /\ tokens = CatCorpus
    /\ N = 3
    /\ tagger \in CatTaggers
    /\ model = <<>>
    /\ rng = OsRng
    /\ n = 0
    /\ max_len = 0
    /\ seed = NoSeed
    /\ candidates = <<>>
    /\ state = <<>>
    /\ out = <<>>
    /\ result = ""
    /\ err = ""
    /\ saved = NoSaved
    /\ NoCaller

GenerateCat ==
    \E pmax \in 0..CatMaxLen, pseed \in SeedArgs : GenStart(N, pmax, pseed)

NextCat ==
    \/ BuildModel
    \/ Continue
    \/ GenerateCat
    \/ SelectReject
    \/ SelectAccept
    \/ ExtendFull
    \/ ExtendDeadEnd
    \/ ExtendEnd
    \/ ExtendAppend

CatSpec == InitCat /\ [][NextCat]_vars

(***************************************************************************)
(* Unseeded calls under fair scheduling.  No call passes a seed, so every  *)
(* draw is the operating system's entropy.  The program is one thread      *)
(* that keeps running, so a loop that can take its next iteration takes    *)
(* it (ExtendStep), and a uniform draw over the candidates that is         *)
(* repeated for ever does not avoid the acceptable ones for ever           *)
(* (SelectAccept).                                                         *)
(***************************************************************************)
GenerateUnseeded ==
    \E pn \in NArgs, pmax \in MaxLenArgs :
        \/ GenEmpty(pn, pmax, NoSeed)
        \/ GenRaise(pn, pmax, NoSeed)
        \/ GenStart(pn, pmax, NoSeed)

\* One iteration of the loop of lines 78-86.
ExtendStep ==
    \/ ExtendFull
    \/ ExtendDeadEnd
    \/ ExtendEnd
    \/ ExtendAppend

NextLive ==
    \/ BuildModel
    \/ Continue
    \/ GenerateUnseeded
    \/ SelectReject
    \/ SelectAccept
    \/ ExtendStep

LiveSpec ==
    /\ Init
    /\ [][NextLive]_vars
    /\ WF_vars(SelectAccept)
    /\ WF_vars(ExtendStep)


(***************************************************************************)
(* The program run from the console (lines 107-139) and endless_stream     *)
(* (lines 90-99).  MAX_LEN (line 9) is 1000 and the pacing of the output   *)
(* (time.sleep) is left out; a line input() reads is one of a few texts.   *)
(***************************************************************************)
\* line 9, scaled to the bounded sentences
MAX_LEN == MaxMaxLen

\* The surface forms of the corpora of the console runs; a line break is
\* a token here.
MainTokens == {"neko", "\n"}

\* What the operator types at a y/n prompt.
Answers == {"y", "Y", "n"}

\* .strip().lower() of an answer
Lower(s) == IF s = "Y" THEN "y" ELSE s

\* The integers whose decimal text the operator may type.
Typed == (0 - 1)..Max(MaxCount, MaxSeed)

\* The texts int() parses.
IntTexts == {ToString(k) : k \in Typed}

\* Texts int() raises ValueError on.
OtherTexts == {"", "x"}

\* The texts typed at the seed prompt.
SeedTexts == {ToString(k) : k \in Seeds} \cup OtherTexts

\* int(s) for a text int() parses
PyInt(s) == CHOOSE k \in Typed : ToString(k) = s

\* sum(ord(c) for c in s) of the texts int() does not parse
OrdSum(s) == IF s = "x" THEN 120 ELSE 0

\* lines 117-120: the seed of a typed text
SeedValue(s) == IF s \in IntTexts THEN PyInt(s) ELSE OrdSum(s)

\* A handler that catches nothing.
CaughtNever(e) == FALSE

\* line 132: except ValueError
Caught(e) == e = "ValueError"

\* Every iteration of the stream gets the base seed.
StreamSeedFixed(b, k) == b

\* line 93: seed=None if seed is None else seed + i
StreamSeed(b, k) == IF b = NoSeed THEN NoSeed ELSE b + k

\* Strings of whitespace only, as long as a sentence can be: s.strip() is
\* empty exactly for these.
BlankTexts == {Join(o) : o \in SeqsUpTo({"\n"}, Max(MAX_LEN, MaxN))}

\* line 94: not s.strip()
IsBlank(s) == s \in BlankTexts

InitMain ==
    /\ pc = "main"
    /\ tokens \in SeqsUpTo(MainTokens, MaxTokens)
    /\ N \in 2..MaxN
    /\ tagger \in [MainTokens -> {<<p>> : p \in PosTags}]
    /\ model = <<>>
    /\ rng = OsRng
    /\ n = 0
    /\ max_len = 0
    /\ seed = NoSeed
    /\ candidates = <<>>
    /\ state = <<>>
    /\ out = <<>>
    /\ result = ""
    /\ err = ""
    /\ saved = NoSaved
    /\ mpc = "ask_mode"
    /\ base = NoSeed
    /\ stream_i = 0
    /\ ask_for = ""
    /\ count = 0
    /\ cont = ""
    /\ printed = 0
    /\ shown = ""

\* lines 110-112, 124: the mode prompt
AskMode ==
    /\ mpc = "ask_mode"
    /\ pc = "built"
    /\ \E ans \in Answers :
          mpc' = IF Lower(ans) = "y" THEN "ask_seed" ELSE "ask_count"
    /\ GoOn
    /\ UNCHANGED <<saved, base, stream_i, ask_for, count, cont, printed,
                   shown>>

\* lines 113-123: the seed prompts, then endless_stream is entered (line 91)
AskSeed ==
    /\ mpc = "ask_seed"
    /\ \E ans \in Answers, seed_input \in SeedTexts :
          base' = IF Lower(ans) = "y" THEN SeedValue(seed_input) ELSE NoSeed
    /\ stream_i' = 0
    /\ mpc' = "stream"
    /\ UNCHANGED <<pc, tokens, N, tagger, model, rng, n, max_len, seed,
                   candidates, state, out, result, err, saved,
                   ask_for, count, cont, printed, shown>>

\* A call of generate_sentence(model, n=N, seed=s) with the default max_len
MainCall(s) ==
    \/ GenEmpty(N, MAX_LEN, s)
    \/ GenStart(N, MAX_LEN, s)

\* line 93: the call of iteration i
StreamCall ==
    /\ mpc = "stream"
    /\ stream_i < MaxIter
    /\ MainCall(StreamSeed(base, stream_i))

\* lines 94-99: the sentence is printed unless blank, and i += 1
StreamNext ==
    /\ mpc = "stream"
    /\ pc = "returned"
    /\ IF IsBlank(result)
       THEN UNCHANGED <<printed, shown>>
       ELSE /\ printed' = printed + 1
            /\ shown' = result
    /\ stream_i' = stream_i + 1
    /\ GoOn
    /\ UNCHANGED <<saved, mpc, base, ask_for, count, cont>>

\* lines 126-128, 132-133: the count prompt.  A text int() does not parse
\* raises ValueError inside the try.
AskCount ==
    /\ mpc = "ask_count"
    /\ pc = "idle"
    /\ \E txt \in IntTexts \cup OtherTexts : ask_for' = txt
    /\ printed' = 0
    /\ IF ask_for' \in IntTexts
       THEN /\ count' = PyInt(ask_for')
            /\ mpc' = "for"
            /\ UNCHANGED <<pc, err>>
       ELSE IF Caught("ValueError")
            THEN /\ count' = 1
                 /\ mpc' = "except"
                 /\ UNCHANGED <<pc, err>>
            ELSE /\ err' = "ValueError"
                 /\ pc' = "raised"
                 /\ UNCHANGED <<count, mpc>>
    /\ UNCHANGED <<tokens, N, tagger, model, rng, n, max_len, seed,
                   candidates, state, out, result, saved,
                   base, stream_i, cont, shown>>

\* line 129: a call of the loop over range(count); printed is the number
\* of iterations done
ForCall ==
    /\ mpc = "for"
    /\ printed < count
    /\ MainCall(NoSeed)

\* lines 130-131: the sentence is printed
ForPrint ==
    /\ mpc = "for"
    /\ pc = "returned"
    /\ printed' = printed + 1
    /\ shown' = result
    /\ GoOn
    /\ UNCHANGED <<saved, mpc, base, stream_i, ask_for, count, cont>>

\* line 137: range(count) is used up
ForDone ==
    /\ mpc = "for"
    /\ pc = "idle"
    /\ printed >= count
    /\ mpc' = "ask_stop"
    /\ UNCHANGED <<pc, tokens, N, tagger, model, rng, n, max_len, seed,
                   candidates, state, out, result, err, saved,
                   base, stream_i, ask_for, count, cont, printed, shown>>

\* line 134: the call of the except branch
ExceptCall ==
    /\ mpc = "except"
    /\ MainCall(NoSeed)

\* lines 135, 137: the sentence is printed
ExceptPrint ==
    /\ mpc = "except"
    /\ pc = "returned"
    /\ printed' = printed + 1
    /\ shown' = result
    /\ mpc' = "ask_stop"
    /\ GoOn
    /\ UNCHANGED <<saved, base, stream_i, ask_for, count, cont>>

\* lines 138-139: the stop prompt
AskStop ==
    /\ mpc = "ask_stop"
    /\ \E ans \in Answers : cont' = Lower(ans)
    /\ mpc' = IF cont' = "y" THEN "exit" ELSE "ask_count"
    /\ UNCHANGED <<pc, tokens, N, tagger, model, rng, n, max_len, seed,
                   candidates, state, out, result, err, saved,
                   base, stream_i, ask_for, count, printed, shown>>

NextMain ==
    \/ BuildModel
    \/ AskMode
    \/ AskSeed
    \/ StreamCall
    \/ StreamNext
    \/ AskCount
    \/ ForCall
    \/ ForPrint
    \/ ForDone
    \/ ExceptCall
    \/ ExceptPrint
    \/ AskStop
    \/ SelectReject
    \/ SelectAccept
    \/ ExtendFull
    \/ ExtendDeadEnd
    \/ ExtendEnd
    \/ ExtendAppend

MainSpec == InitMain /\ [][NextMain]_vars


(***************************************************************************)
(*                              The claims                                 *)
(***************************************************************************)
\* The windows of k tokens of toks, last one included, that are state s
\* followed by t (0-based start indices).
Windows(toks, k, s, t) ==
    {i \in 0..(Len(toks) - k) :
        SubSeq(toks, i + 1, i + k - 1) = s /\ toks[i + k] = t}

\* C1: for n >= 2 the model build_model returns counts, for every state s
\* and token t, every full window of n tokens that is s followed by t, the
\* last window included.
C1_EveryWindowCounted ==
    (pc = "built" /\ N >= 2) =>
        \A s \in [1..(N - 1) -> Tokens], t \in Tokens :
            Count(ModelGet(model, s), t)
                = Cardinality(Windows(tokens, N, s, t))

\* C2: for n >= 2 the model build_model returns is empty exactly when the
\* corpus has fewer than n tokens.
C2_EmptyIffShort ==
    (pc = "built" /\ N >= 2) => ((model = <<>>) <=> (Len(tokens) < N))

\* C3: the sequence generate_sentence joins into its result has at most
\* max_len tokens.
C3_AtMostMaxLen ==
    pc = "returned" => Len(out) <= max_len

\* Every state of the model opens with a terminator token.
AllKeysOpenWithEnd(m) == \A k \in 1..Len(m) : m[k].state[1] \in END_TOKENS

\* C4: on a non-empty model the sentence generate_sentence returns does not
\* open with a terminator token, unless every state of the model does.
C4_StartNotTerminator ==
    (pc = "returned" /\ model # <<>>) =>
        /\ out # <<>>
        /\ out[1] \in END_TOKENS => AllKeysOpenWithEnd(model)

\* C4 witness: a sentence returned from a model that has states opening
\* with a terminator and states that do not.
C4_Witness ==
    /\ pc = "returned"
    /\ model # <<>>
    /\ \E k \in 1..Len(model) : model[k].state[1] \in END_TOKENS
    /\ \E k \in 1..Len(model) : model[k].state[1] \notin END_TOKENS
    /\ out[1] \notin END_TOKENS

\* C5: the sentence generate_sentence returns never opens with a token of
\* the start-exclude set.
C5_StartNotExcluded ==
    (pc = "returned" /\ out # <<>>) => out[1] \notin START_EXCLUDE

\* C6: a call of generate_sentence with the seed, n and max_len of the
\* kept sentence returns the kept sentence, whatever the random module's
\* state was before either call.
C6_SameSeedSameSentence ==
    (/\ pc = "returned"
     /\ saved # NoSaved
     /\ seed = saved.seed
     /\ n = saved.n
     /\ max_len = saved.max_len) => result = saved.result

\* C6 witness: a later call with the kept arguments has returned a
\* non-empty sentence from a model with several candidate start states.
C6_Witness ==
    /\ pc = "returned"
    /\ saved # NoSaved
    /\ seed = saved.seed
    /\ n = saved.n
    /\ max_len = saved.max_len
    /\ result # ""
    /\ Len(Candidates(model)) >= 2

\* C7: a call of generate_sentence on an empty model returns "" in that
\* step: nothing is raised and the selection loop is not entered.
C7_EmptyModelReturnsEmpty ==
    [][(pc = "idle" /\ model = <<>>) =>
            (pc' = "returned" /\ result' = "" /\ err' = "")]_vars

\* C7 witness: a seeded call on the empty model of a corpus shorter than
\* n has returned.
C7_Witness ==
    /\ pc = "returned"
    /\ model = <<>>
    /\ N >= 2
    /\ max_len > 0
    /\ seed # NoSeed
    /\ result = ""

\* C8: with n < 2 the program never gets past its start: no model is
\* built and generate_sentence is not reached.
C8_InvalidNRejected ==
    N < 2 => pc = "main"

\* C9: for n >= 2 every state key of the model build_model returns is a
\* tuple of exactly n-1 tokens.
C9_KeyLength ==
    (pc = "built" /\ N >= 2) =>
        \A k \in 1..Len(model) : Len(model[k].state) = N - 1

\* C9 witness: a model of trigrams with several states has been built.
C9_Witness ==
    /\ pc = "built"
    /\ N = 3
    /\ Len(model) >= 2

\* The Counter c as a set of (token, count) pairs.
Items(c) == {<<c[j].tok, c[j].cnt>> : j \in 1..Len(c)}

\* C10 as stated: in the model of the cat corpus with n = 3 the entry of
\* (私, は) is {猫: 1} and the entry of (は, 猫) is {だ: 1, 可愛い: 1}.
C10_CatEntriesAsStated ==
    pc = "built" =>
        /\ Items(ModelGet(model, <<"watashi", "ha">>)) = {<<"neko", 1>>}
        /\ Items(ModelGet(model, <<"ha", "neko">>))
               = {<<"da", 1>>, <<"kawaii", 1>>}

\* C10 amended: the entry of (私, は) is {猫: 1} and the entry of (は, 猫)
\* is {だ: 1} (可愛い follows (猫, は), not (は, 猫)).
C10_CatEntries ==
    pc = "built" =>
        /\ Items(ModelGet(model, <<"watashi", "ha">>)) = {<<"neko", 1>>}
        /\ Items(ModelGet(model, <<"ha", "neko">>)) = {<<"da", 1>>}

\* C10 witness: the model of the cat corpus has been built.
C10_Witness ==
    /\ pc = "built"
    /\ tokens = CatCorpus
    /\ N = 3
    /\ KeyIndex(model, <<"ha", "neko">>) # 0

(***************************************************************************)
(* C11: the cat corpus, a sentence that starts at (watashi, ha).           *)
(***************************************************************************)
\* The sentence watashi ha neko da . joined.
CatSentence == Join(<<"watashi", "ha", "neko", "da", ".">>)

\* A returned call whose accepted start state was (watashi, ha).
StartedAtWatashiHa ==
    /\ pc = "returned"
    /\ Len(out) >= 2
    /\ SubSeq(out, 1, 2) = <<"watashi", "ha">>

\* C11 as stated: every generation on the cat model whose start state is
\* (watashi, ha) returns exactly the five-token sentence.
C11_AlwaysWholeSentence == StartedAtWatashiHa => result = CatSentence

\* C11: on the cat model with n = 3, every generation whose start state is
\* (watashi, ha) and whose max_len is at least 5 returns exactly the
\* sentence watashi ha neko da . : each state on the path has one successor
\* and the walk stops at the first terminator.
C11_WholeSentenceWhenRoom ==
    (StartedAtWatashiHa /\ max_len >= 5) => result = CatSentence

C11_Witness ==
    /\ StartedAtWatashiHa
    /\ max_len >= 5
    /\ result = CatSentence

(***************************************************************************)
(* C14, C16, C18, C19, C20: the start state and the extension loop.        *)
(***************************************************************************)
\* The analyzer tags some unit of word as a particle.
TaggedParticle(word) ==
    \E k \in 1..Len(tagger[word]) : tagger[word][k] = "joshi"

Range(f) == {f[k] : k \in 1..Len(f)}

\* The first N - 1 tokens of the output: the accepted start state.
StartOf(o) == SubSeq(o, 1, N - 1)

\* C14: whenever generate_sentence returns a non-empty result, the accepted
\* start state is one of the candidates and no unit of its first token is
\* tagged a particle.
C14_StartIsNonParticleCandidate ==
    (pc = "returned" /\ result # "") =>
        /\ StartOf(out) \in Range(Candidates(model))
        /\ ~TaggedParticle(out[1])

C14_Witness ==
    /\ pc = "returned"
    /\ result # ""
    /\ \E c \in Range(Candidates(model)) : TaggedParticle(c[1])

\* C16: among the tokens appended after the start state a terminator can
\* only be the last token of the output, and the loop has stopped once one
\* is there.
C16_TerminatorOnlyLast ==
    pc \in {"extend", "returned"} =>
        \A k \in N..Len(out) :
            out[k] \in END_TOKENS => (k = Len(out) /\ pc = "returned")

C16_Witness ==
    /\ pc = "returned"
    /\ Len(out) >= N + 1
    /\ out[Len(out)] \in END_TOKENS

\* C18: once the model is built no step of generate_sentence changes it.
C18_ModelUnchanged == [][pc # "main" => model' = model]_vars

\* A call has returned from a lookup of a state that is not a key.
C18_Witness ==
    /\ pc = "returned"
    /\ Len(out) >= N
    /\ Len(out) < max_len
    /\ out[Len(out)] \notin END_TOKENS
    /\ KeyIndex(model, LastState(out, n)) = 0

\* C19: in a call with the n the model was built with, the start state is
\* a key and every appended token has a count of at least 1 in the entry of
\* the n - 1 tokens before it.
C19_WindowsRecorded ==
    (pc \in {"extend", "returned"} /\ n = N /\ out # <<>>) =>
        /\ KeyIndex(model, StartOf(out)) # 0
        /\ \A k \in N..Len(out) :
              Count(ModelGet(model, SubSeq(out, k - N + 1, k - 1)), out[k]) >= 1

C19_Witness ==
    /\ pc = "returned"
    /\ n = N
    /\ Len(out) >= N + 1

\* C20: after build_model every key of the model has a non-empty Counter
\* and every count in it is at least 1.
C20_NoEmptyEntry ==
    pc # "main" =>
        \A k \in 1..Len(model) :
            /\ model[k].counter # <<>>
            /\ \A j \in 1..Len(model[k].counter) : model[k].counter[j].cnt >= 1

\* A call on a model of several keys has ended in a dead end.
C20_Witness ==
    /\ pc = "returned"
    /\ Len(model) >= 2
    /\ out # <<>>
    /\ ModelGet(model, LastState(out, n)) = <<>>
    /\ Len(out) < max_len

(***************************************************************************)
(* C13, C15: termination of the two loops of generate_sentence.            *)
(***************************************************************************)
\* Some candidate's first token is not tagged a particle.
SomeAcceptable == \E c \in Range(candidates) : ~TaggedParticle(c[1])

\* C13: under fair drawing the start-state loop accepts a state whenever
\* some candidate's first token is not a particle, and when every
\* candidate's first token is a particle the loop is never left.
C13_SelectionEndsIffPossible ==
    /\ (pc = "select" /\ SomeAcceptable) ~> (pc = "extend")
    /\ [][(pc = "select" /\ ~SomeAcceptable) => pc' = "select"]_vars

\* A draw has been rejected while an acceptable candidate exists.
C13_Witness ==
    /\ pc = "select"
    /\ state # <<>>
    /\ TaggedParticle(state[1])
    /\ SomeAcceptable

\* The tokens appended so far to a start state of N - 1 tokens.
Appended == Len(out) - (N - 1)

\* C15 as stated: the extension loop terminates for every model and every
\* n, after appending at most max(0, max_len - (n - 1)) tokens.
C15_BoundForEveryN ==
    /\ []((pc \in {"extend", "returned"} /\ out # <<>>) =>
            Appended <= Max(0, max_len - (n - 1)))
    /\ (pc = "extend") ~> (pc = "returned")

\* C15: once a start state is accepted the extension loop terminates, for
\* every model, and when n is the n the model was built with it has
\* appended at most max(0, max_len - (n - 1)) tokens.
C15_LoopTerminates ==
    /\ []((pc \in {"extend", "returned"} /\ out # <<>> /\ n = N) =>
            Appended <= Max(0, max_len - (n - 1)))
    /\ (pc = "extend") ~> (pc = "returned")

\* A call has filled max_len tokens without sampling a terminator.
C15_Witness ==
    /\ pc = "returned"
    /\ n = N
    /\ max_len > n - 1
    /\ Appended = max_len - (n - 1)
    /\ out[Len(out)] \notin END_TOKENS

(***************************************************************************)
(* C12, C17: the console loop and endless_stream.                          *)
(***************************************************************************)
\* C12: in the count mode a count entry that is not an integer ends the
\* program with no error: the round goes to the except branch, where one
\* sentence is generated and printed before the stop prompt, and the mode
\* is left only from the stop prompt, on the answer y; any other answer
\* leads to the next count prompt.
C12_NonIntegerCountIsOneSentence ==
    /\ [][(mpc = "ask_count" /\ ask_for' \notin IntTexts) =>
            (mpc' = "except" /\ pc' # "raised" /\ err' = "")]_vars
    /\ [][mpc = "except" => mpc' \in {"except", "ask_stop"}]_vars
    /\ []((mpc = "ask_stop" /\ ask_for \notin IntTexts) =>
            (printed = 1 /\ err = ""))
    /\ [][(mpc = "ask_stop" /\ mpc' # "ask_stop") =>
            mpc' = (IF cont' = "y" THEN "exit" ELSE "ask_count")]_vars
    /\ [][(mpc # "exit" /\ mpc' = "exit") =>
            (mpc = "ask_stop" /\ cont' = "y")]_vars

\* The stop prompt is reached after a count that is not an integer, with
\* a sentence on the console.
C12_Witness ==
    /\ mpc = "ask_stop"
    /\ ask_for \notin IntTexts
    /\ printed = 1
    /\ shown # ""

\* A call made by endless_stream is running or has returned.
InStreamCall == mpc = "stream" /\ pc \in {"select", "extend", "returned"}

\* C17: in endless_stream with base seed b the call of iteration i is
\* seeded with b + i, i grows by one at every iteration whether the
\* sentence is printed or skipped, a blank sentence is never printed, and
\* with no base seed the random module is never seeded.
C17_StreamSeedsByIteration ==
    /\ []((InStreamCall /\ base # NoSeed) =>
            (seed = base + stream_i /\ rng.src = "seed"
               /\ rng.seed = base + stream_i))
    /\ []((mpc = "stream" /\ base = NoSeed) => (seed = NoSeed /\ rng = OsRng))
    /\ [][(mpc = "stream" /\ pc = "returned" /\ pc' = "idle") =>
            /\ stream_i' = stream_i + 1
            /\ result \in BlankTexts => printed' = printed
            /\ result \notin BlankTexts =>
                  (printed' = printed + 1 /\ shown' = result)]_vars
    /\ []((mpc = "stream" /\ printed > 0) => shown \notin BlankTexts)

\* Iteration i >= 1 of a seeded stream is running after a skipped sentence.
C17_Witness ==
    /\ InStreamCall
    /\ base # NoSeed
    /\ stream_i >= 1
    /\ printed < stream_i

=============================================================================
